---- MODULE Spec2Model ----
(***************************************************************************)
(* Model of app.py (bursa-daily-bot): discovery of the latest price-target *)
(* reports, the per-stock scan, enrichment, the compliance merge and the   *)
(* delivery loop with its photo-then-text fallback.                        *)
(*                                                                         *)
(* Strings are tuples of character codes, compared the way Python compares *)
(* str (code point by code point, a proper prefix first).  A date text is  *)
(* a tuple <<day, month, year>>; a parsed Timestamp is year*10000 +        *)
(* month*100 + day, which orders as the calendar does.                     *)
(***************************************************************************)
EXTENDS Integers, Sequences, FiniteSets, TLC

VARIABLES
    run,            \* 1 for the first execution of main(), 2 for a re-run
    pc,             \* position of main()
    feed,           \* rows of the "latest" page (pt.jsp), as served
    latest_df,      \* get_latest_price_target(DATE): rows with their labels
    stocks_df,      \* get_stocks(): rows [name, Shariah]
    stocks,         \* the list main() scans
    served,         \* the per-stock pages fetched so far, as served
    appended_df,    \* get_price_target_by_stock results so far
    new_report_df,  \* the records to deliver, with Status
    index,          \* number of rows the delivery loop has finished
    branch,         \* what the photo branch did for the row just processed
    fetches,        \* per row: document fetches made (requests.get, line 79)
    calls,          \* every bot.send_* call made, in order, with its outcome
    raised,         \* "" or the call whose exception ended the run
    firstSeed       \* seed names of run 1 (history, for the re-run claim)

vars == <<run, pc, feed, latest_df, stocks_df, stocks, served, appended_df,
          new_report_df, index, branch, fetches, calls, raised, firstSeed>>

---------------------------------------------------------------------------
(* Bounds of the model and constants of the program *)

FeedPageSize == 50
LastRowLabel == 49
MaxRows == 2
MaxCatalog == 3
MaxOld == 1

---------------------------------------------------------------------------
(* Strings and dates *)

NameA == <<1>>
NameAB == <<1, 2>>
NameB == <<2>>
Names == {NameA, NameAB, NameB}

RECURSIVE StrLess(_, _)
StrLess(a, b) ==
    IF a = <<>> THEN b # <<>>
    ELSE IF b = <<>> THEN FALSE
    ELSE IF a[1] # b[1] THEN a[1] < b[1]
    ELSE StrLess(Tail(a), Tail(b))

StrGreater(a, b) == StrLess(b, a)

RawOld == <<30, 10, 2026>>
RawToday == <<31, 10, 2026>>
RawLater == <<1, 11, 2026>>
RawBad == <<31, 11, 2026>>
BadDate == 0 - 1

DaysIn(m, y) ==
    IF m \in {4, 6, 9, 11} THEN 30
    ELSE IF m = 2 THEN (IF y % 4 = 0 /\ (y % 100 # 0 \/ y % 400 = 0) THEN 29 ELSE 28)
    ELSE 31

\* pd.to_datetime(text, format='%d/%m/%Y') of one cell; BadDate where it raises
to_datetime(raw) ==
    IF raw[2] \in 1..12 /\ raw[1] >= 1 /\ raw[1] <= DaysIn(raw[2], raw[3])
    THEN raw[3] * 10000 + raw[2] * 100 + raw[1]
    ELSE BadDate

\* pd.Timestamp.today(tz=...).floor('d'): the cutoff of the run
DATE == to_datetime(RawToday)

---------------------------------------------------------------------------
(* Sequence helpers *)

Range(s) == {s[i] : i \in 1..Len(s)}

RECURSIVE Flatten(_)
Flatten(ss) == IF ss = <<>> THEN <<>> ELSE Head(ss) \o Flatten(Tail(ss))

\* Series.unique(): first occurrences, in order of appearance
Unique(s) ==
    LET firsts == {i \in 1..Len(s) : \A k \in 1..(i - 1) : s[k] # s[i]}
    IN [n \in 1..Cardinality(firsts) |->
            s[CHOOSE i \in firsts : Cardinality({j \in firsts : j < i}) = n - 1]]

---------------------------------------------------------------------------
(* Sorting *)

\* sort_values(by=['Stock Name']) of get_stocks
NameLess(r1, r2) == StrLess(r1.name, r2.name)

TextLess(r1, r2) ==
    \/ r1.Date % 100 < r2.Date % 100
    \/ r1.Date % 100 = r2.Date % 100 /\ StrLess(r1.name, r2.name)
\* sort_values(by=['Date', 'Stock Name'])
ReportLess(r1, r2) ==
    \/ r1.Date < r2.Date
    \/ r1.Date = r2.Date /\ StrLess(r1.name, r2.name)

\* the order each sort of the program uses: rows by their key columns,
\* plain names as str
RowLess(by, x, y) ==
    IF by = "Date,Stock Name" THEN ReportLess(x, y)
    ELSE IF by = "Stock Name" THEN NameLess(x, y)
    ELSE StrLess(x, y)

\* insert x into the sorted sequence s after every element not greater than it
RECURSIVE InsertBy(_, _, _)
InsertBy(by, x, s) ==
    IF s = <<>> THEN <<x>>
    ELSE IF RowLess(by, x, Head(s)) THEN <<x>> \o s
    ELSE <<Head(s)>> \o InsertBy(by, x, Tail(s))

\* sort_values(by=...) and sorted(): ascending, equal keys in their order
RECURSIVE SortBy(_, _)
SortBy(by, s) ==
    IF s = <<>> THEN <<>>
    ELSE InsertBy(by, s[Len(s)], SortBy(by, SubSeq(s, 1, Len(s) - 1)))

---------------------------------------------------------------------------
(* What the scraped sites serve: the inputs of a run *)

\* the "latest" page: n rows, the first j for stock a and the rest for b,
\* the last o of them dated before the cutoff
FeedOf(n, a, b, j, o) ==
    [i \in 1..n |-> [name |-> IF i <= j THEN a ELSE b,
                     date |-> IF i <= n - o THEN RawToday ELSE RawOld]]

FeedLens == {0, 1, 2, FeedPageSize - 1, FeedPageSize}

Feeds(lens, as, bs, js) ==
    {FeedOf(n, a, b, j, o) :
        n \in lens, a \in as, b \in bs, j \in js, o \in 0..MaxOld}

SeqsUpTo(S, n) == UNION {[1..k -> S] : k \in 0..n}

\* rows of stockheatmap.json: name and data.shariah
PrimaryRows == [name : Names, shariah : {"Yes", "No"}]
\* cells of the REIT table: the name, then an optional "[NS]" token
ReitRows == [name : Names, suffix : {"", "[NS]"}]

\* every pair of catalogs with at most MaxCatalog rows between them
CatalogsWide ==
    UNION {UNION {[primary : [1..k -> PrimaryRows], reit : [1..j -> ReitRows]] :
                    j \in 0..(MaxCatalog - k)} : k \in 0..MaxCatalog}

Reit1 == <<[name |-> NameB, suffix |-> "[NS]"]>>
Reit2 == <<[name |-> NameAB, suffix |-> ""], [name |-> NameB, suffix |-> "[NS]"]>>
CatalogsNarrow ==
    {[primary |-> <<[name |-> NameA, shariah |-> "Yes"]>>, reit |-> Reit1],
     [primary |-> <<[name |-> NameB, shariah |-> "Yes"]>>, reit |-> Reit2],
     [primary |-> <<>>, reit |-> <<[name |-> NameAB, suffix |-> ""]>>]}

\* a data row of a stock's table: its date cell and the link of its 7th cell
TableRows ==
    {[Date |-> RawOld, Link |-> "/pt/1"], [Date |-> RawToday, Link |-> "/pt/1"],
     [Date |-> RawToday, Link |-> "/pt/2"], [Date |-> RawLater, Link |-> "/pt/2"],
     [Date |-> RawBad, Link |-> "/pt/1"]}

\* ptservlet.jsp for one stock: no usable table, or a header and data rows
NoTable == [table |-> FALSE, rows |-> <<>>]
TablesWide ==
    {NoTable} \cup {[table |-> TRUE, rows |-> r] : r \in SeqsUpTo(TableRows, MaxRows)}
TablesNarrow ==
    {NoTable,
     [table |-> TRUE, rows |-> <<[Date |-> RawToday, Link |-> "/pt/2"]>>],
     [table |-> TRUE, rows |-> <<[Date |-> RawBad, Link |-> "/pt/1"]>>],
     [table |-> TRUE, rows |-> <<[Date |-> RawLater, Link |-> "/pt/1"],
                                 [Date |-> RawOld, Link |-> "/pt/1"]>>]}

\* a detail page: its <h2>, whether div.doccontent exists, and for each <p>
\* of it the href of its first <a href> ("" when it has none)
DetailPage(link) ==
    IF link = "/pt/2"
    THEN [h2 |-> "Report 2", doccontent |-> TRUE, p |-> <<"", "/blog/2">>]
    ELSE [h2 |-> "", doccontent |-> TRUE, p |-> <<"/blog/1", "">>]

\* a post page: the data attribute of its <object> ("" when it has none)
PostPage(post) == IF post = "/blog/2" THEN "//cdn/report 2.pdf" ELSE ""

---------------------------------------------------------------------------
(* get_latest_price_target, get_stocks, the scan list *)

Labelled(fd) ==
    [i \in 1..Len(fd) |->
        [label |-> i - 1, name |-> fd[i].name, Date |-> to_datetime(fd[i].date)]]

FilterFeedGt(df, date) == SelectSeq(df, LAMBDA r : r.Date > date)
\* df[df['Date'] >= date]: the rows kept keep their labels
FilterFeed(df, date) == SelectSeq(df, LAMBDA r : r.Date >= date)

get_latest_price_target(fd, date) == FilterFeed(Labelled(fd), date)

FeedRaises(fd) == \E i \in 1..Len(fd) : to_datetime(fd[i].date) = BadDate

\* reit_df['Stock Name'].str.split(expand=True): one column per token
SplitColumns(reit) ==
    IF reit = <<>> THEN 0
    ELSE IF \E i \in 1..Len(reit) : reit[i].suffix # "" THEN 2 ELSE 1

\* assigning the split to two columns raises unless it has two columns
StocksRaises(cat) == SplitColumns(cat.reit) # 2

ReitShariah(suffix) ==
    IF suffix = "" THEN "Yes" ELSE IF suffix = "[NS]" THEN "No" ELSE "NaN"

ShariahMarker(flag) ==
    IF flag = "Yes" THEN "" ELSE IF flag = "No" THEN "[NS] " ELSE "NaN"

\* pd.concat([stock_df, reit_df], ignore_index=True)
Concat(a, b) == a \o b

get_stocks(cat) ==
    LET stock_df == [i \in 1..Len(cat.primary) |->
                        [name |-> cat.primary[i].name,
                         Shariah |-> cat.primary[i].shariah]]
        reit_df == [i \in 1..Len(cat.reit) |->
                        [name |-> cat.reit[i].name,
                         Shariah |-> ReitShariah(cat.reit[i].suffix)]]
        df == SortBy("Stock Name", Concat(stock_df, reit_df))
    IN [i \in 1..Len(df) |->
            [name |-> df[i].name, Shariah |-> ShariahMarker(df[i].Shariah)]]

\* latest_df.loc[49, 'Stock Name'] looks the row up by label
HasLabel(df, l) == \E i \in 1..Len(df) : df[i].label = l
RowAt(df, l) == df[CHOOSE i \in 1..Len(df) : df[i].label = l]

BeforeLast(name, last_row) == StrLess(name, last_row)
\* stocks_df['Stock Name'] > last_row
AfterLast(name, last_row) == StrGreater(name, last_row)

\* len(latest_df) == 50
Truncated(ldf) == Len(ldf) = FeedPageSize

\* .loc raises KeyError when no row carries the label
ScopeRaises(ldf) == Truncated(ldf) /\ ~HasLabel(ldf, LastRowLabel)

ScanList(ldf, sdf) ==
    LET seed == Unique([i \in 1..Len(ldf) |-> ldf[i].name])
    IN IF Truncated(ldf)
       THEN LET last_row == RowAt(ldf, LastRowLabel).name
                more == SelectSeq([i \in 1..Len(sdf) |-> sdf[i].name],
                                  LAMBDA n : AfterLast(n, last_row))
            IN SortBy("str", Unique(seed \o more))
       ELSE seed

---------------------------------------------------------------------------
(* get_price_target_by_stock, get_link_details, the build of new_report_df *)

\* pd.to_datetime over the Date column raises on the first cell that does
\* not match the format
TableRaises(t) ==
    t.table /\ \E i \in 1..Len(t.rows) : to_datetime(t.rows[i].Date) = BadDate

\* the DataFrame of one stock; [none |-> TRUE] stands for the None returned
\* when the page has no table or carries the warning
get_price_target_by_stock(stock, t) ==
    IF ~t.table THEN [none |-> TRUE, rows |-> <<>>]
    ELSE [none |-> FALSE,
          rows |-> [i \in 1..Len(t.rows) |->
                     [name |-> stock, Date |-> to_datetime(t.rows[i].Date),
                      Link |-> t.rows[i].Link]]]

get_pdf(post) == PostPage(post)

get_link_details(link) ==
    LET page == DetailPage(link)
        post == IF page.doccontent /\ page.p # <<>> THEN page.p[Len(page.p)] ELSE ""
    IN [Title |-> page.h2, Post |-> post,
        Pdf |-> IF post # "" THEN get_pdf(post) ELSE ""]

\* pd.concat raises when every element is None
ConcatRaises(dfs) == \A i \in 1..Len(dfs) : dfs[i].none

\* report_df['Date'] >= DATE
IsLatest(r, date) == r.Date >= date

Filtered(dfs) ==
    SortBy("Date,Stock Name",
           SelectSeq(Flatten([i \in 1..Len(dfs) |-> dfs[i].rows]),
                     LAMBDA r : IsLatest(r, DATE)))

\* unpacking zip(*...) of an empty frame into three columns raises
EnrichRaises(df) == df = <<>>

\* the rows pd.merge(how='left', on='Stock Name') makes of one left row:
\* one per matching row of stocks_df, or one with Shariah missing (then '')
MergeRow(r, d, sdf) ==
    LET hits == SelectSeq(sdf, LAMBDA e : e.name = r.name)
        base == [name |-> r.name, Date |-> r.Date, Link |-> r.Link,
                 Title |-> d.Title, Post |-> d.Post, Pdf |-> d.Pdf,
                 Shariah |-> "", Status |-> ""]
        fillna(v) == IF v = "NaN" THEN "" ELSE v
    IN IF hits = <<>> THEN <<base>>
       ELSE [k \in 1..Len(hits) |-> [base EXCEPT !.Shariah = fillna(hits[k].Shariah)]]

Merged(df, sdf) ==
    Flatten([i \in 1..Len(df) |-> MergeRow(df[i], get_link_details(df[i].Link), sdf)])

---------------------------------------------------------------------------
(* The delivery loop's decisions *)

\* what the photo branch of one row meets: requests.get raises, the
\* response has no content-type header ('in None' raises), the type is not
\* PDF, generate_photo raises, send_photo raises, or the photo is sent
PhotoOutcomes ==
    {"fetch_raises", "no_content_type", "text/html", "render_raises",
     "send_photo_raises", "sent"}

PhotoRaises(out) ==
    out \in {"fetch_raises", "no_content_type", "render_raises", "send_photo_raises"}

SwallowedRequestsOnly(out) == out = "fetch_raises"
\* the bare except: pass catches whatever the try block raises
Swallowed(out) == TRUE

NotSentAlways(row, out) == TRUE
NotSentEarly(row, out) ==
    ~(row.Pdf # "" /\ out \in {"sent", "send_photo_raises"})
\* not_sent after the photo branch: cleared only once send_photo returned
NotSent(row, out) == ~(row.Pdf # "" /\ out = "sent")

TextCaughtToo == TRUE
\* bot.send_message for the row's text is outside any try
TextCaught == FALSE

MainCall(kind, i, row, ok) ==
    [run |-> run, chat |-> "CHAT_ID", kind |-> kind, rec |-> i,
     name |-> row.name, Date |-> row.Date,
     text |-> IF kind = "photo" THEN "Caption" ELSE "Text", ok |-> ok]

LogCall(text, ok) ==
    [run |-> run, chat |-> "CHAT_ID_LOG", kind |-> "text", rec |-> 0,
     name |-> <<>>, Date |-> 0, text |-> text, ok |-> ok]

SummaryText(df) ==
    IF \E i \in 1..Len(df) : df[i].Status # "Sent"
    THEN "Not all reports are submitted."
    ELSE "Task is completed."

SeedNames(df) == {df[i].name : i \in 1..Len(df)}

---------------------------------------------------------------------------
(* main(), one action per step *)

InitOf(Fs) ==
    /\ run = 1
    /\ pc = "start"
    /\ feed \in Fs
    /\ latest_df = <<>>
    /\ stocks_df = <<>>
    /\ stocks = <<>>
    /\ served = <<>>
    /\ appended_df = <<>>
    /\ new_report_df = <<>>
    /\ index = 0
    /\ branch = "none"
    /\ fetches = <<>>
    /\ calls = <<>>
    /\ raised = ""
    /\ firstSeed = {}

\* lines 20-37: the latest page, and the short circuit when nothing is new
Discover ==
    /\ pc = "start"
    /\ IF FeedRaises(feed)
       THEN /\ pc' = "crashed"
            /\ raised' = "to_datetime:141"
            /\ UNCHANGED <<latest_df, calls, firstSeed>>
       ELSE LET df == get_latest_price_target(feed, DATE)
            IN /\ latest_df' = df
               /\ firstSeed' = IF run = 1 THEN SeedNames(df) ELSE firstSeed
               /\ IF Len(df) = 0
                  THEN \E ok \in BOOLEAN :
                         /\ calls' = Append(calls,
                                LogCall("No latest report is available.", ok))
                         /\ pc' = IF ok THEN "done" ELSE "crashed"
                         /\ raised' = IF ok THEN "" ELSE "send_message:31"
                  ELSE /\ calls' = calls
                       /\ pc' = "universe"
                       /\ raised' = ""
    /\ UNCHANGED <<run, feed, stocks_df, stocks, served, appended_df,
                   new_report_df, index, branch, fetches>>

\* lines 38-47: the stock universe and the list of stocks to scan
ResolveScope(Catalogs) ==
    /\ pc = "universe"
    /\ \E cat \in Catalogs :
         IF StocksRaises(cat) \/ ScopeRaises(latest_df)
         THEN /\ pc' = "crashed"
              /\ raised' = IF StocksRaises(cat) THEN "setitem:160" ELSE "loc:44"
              /\ UNCHANGED <<stocks_df, stocks>>
         ELSE /\ stocks_df' = get_stocks(cat)
              /\ stocks' = ScanList(latest_df, get_stocks(cat))
              /\ pc' = "fetch"
              /\ raised' = ""
    /\ UNCHANGED <<run, feed, latest_df, served, appended_df, new_report_df,
                   index, branch, fetches, calls, firstSeed>>

RowsFetched(pages) == Len(Flatten([i \in 1..Len(pages) |-> pages[i].rows]))

\* line 50: one element of the list comprehension; the pages of one run
\* hold at most MaxRows data rows between them
FetchStock(Tables) ==
    /\ pc = "fetch"
    /\ \E t \in Tables :
         /\ RowsFetched(served) + Len(t.rows) <= MaxRows
         /\ served' = Append(served, t)
         /\ IF TableRaises(t)
            THEN /\ pc' = "crashed"
                 /\ raised' = "to_datetime:197"
                 /\ UNCHANGED appended_df
            ELSE /\ appended_df' = Append(appended_df,
                       get_price_target_by_stock(stocks[Len(appended_df) + 1], t))
                 /\ pc' = IF Len(appended_df) + 1 = Len(stocks) THEN "build" ELSE "fetch"
                 /\ raised' = ""
    /\ UNCHANGED <<run, feed, latest_df, stocks_df, stocks, new_report_df,
                   index, branch, fetches, calls, firstSeed>>

\* lines 51-73: concatenate, filter, sort, enrich, merge, blank Status
Build ==
    /\ pc = "build"
    /\ IF ConcatRaises(appended_df) \/ EnrichRaises(Filtered(appended_df))
       THEN /\ pc' = "crashed"
            /\ raised' = IF ConcatRaises(appended_df) THEN "concat:51" ELSE "unpack:60"
            /\ UNCHANGED <<new_report_df, fetches>>
       ELSE /\ new_report_df' = Merged(Filtered(appended_df), stocks_df)
            /\ fetches' = [i \in 1..Len(Merged(Filtered(appended_df), stocks_df)) |-> 0]
            /\ pc' = "deliver"
            /\ raised' = ""
    /\ UNCHANGED <<run, feed, latest_df, stocks_df, stocks, served, appended_df,
                   index, branch, calls, firstSeed>>

\* lines 74-108: one iteration of the delivery loop
Deliver(out, ok) ==
    /\ pc = "deliver"
    /\ LET i == index + 1
           row == new_report_df[i]
           tried == row.Pdf # ""
           photoCall == tried /\ out \in {"sent", "send_photo_raises"}
           uncaught == tried /\ PhotoRaises(out) /\ ~Swallowed(out)
           textCall == ~uncaught /\ NotSent(row, out)
           sent == (tried /\ out = "sent") \/ (textCall /\ ok)
           abort == uncaught \/ (textCall /\ ~ok /\ ~TextCaught)
       IN /\ branch' = IF tried THEN out ELSE "no_pdf"
          /\ fetches' = [fetches EXCEPT ![i] = @ + (IF tried THEN 1 ELSE 0)]
          /\ calls' = calls
                \o (IF photoCall THEN <<MainCall("photo", i, row, out = "sent")>> ELSE <<>>)
                \o (IF textCall THEN <<MainCall("text", i, row, ok)>> ELSE <<>>)
          /\ new_report_df' = IF sent THEN [new_report_df EXCEPT ![i].Status = "Sent"]
                              ELSE new_report_df
          /\ index' = IF abort THEN index ELSE i
          /\ pc' = IF abort THEN "crashed"
                   ELSE IF i = Len(new_report_df) THEN "summary" ELSE "deliver"
          /\ raised' = IF uncaught THEN "photo:79-92"
                       ELSE IF abort THEN "send_message:100" ELSE ""
    /\ UNCHANGED <<run, feed, latest_df, stocks_df, stocks, served, appended_df,
                   firstSeed>>

\* lines 110-124: the summary to the log channel
Summary ==
    /\ pc = "summary"
    /\ \E ok \in BOOLEAN :
         /\ calls' = Append(calls, LogCall(SummaryText(new_report_df), ok))
         /\ pc' = IF ok THEN "done" ELSE "crashed"
         /\ raised' = IF ok THEN "" ELSE "send_message:111-124"
    /\ UNCHANGED <<run, feed, latest_df, stocks_df, stocks, served, appended_df,
                   new_report_df, index, branch, fetches, firstSeed>>

\* the script is started again: nothing of the first run is kept by the
\* program; the page served and the channels' history are the world's
Rerun ==
    /\ pc \in {"done", "crashed"}
    /\ run = 1
    /\ run' = 2
    /\ pc' = "start"
    /\ latest_df' = <<>>
    /\ stocks_df' = <<>>
    /\ stocks' = <<>>
    /\ served' = <<>>
    /\ appended_df' = <<>>
    /\ new_report_df' = <<>>
    /\ index' = 0
    /\ branch' = "none"
    /\ fetches' = <<>>
    /\ raised' = ""
    /\ UNCHANGED <<feed, calls, firstSeed>>

FeedsSpec == Feeds({0, 1, 2, FeedPageSize}, {NameA}, {NameAB}, {1})
FeedsWide == Feeds(FeedLens, Names, Names, {0, 1})
FeedsNarrow == Feeds({0, 1, 2}, {NameA}, {NameA, NameAB}, {1})

Init == InitOf(FeedsSpec)

Next ==
    \/ Discover
    \/ ResolveScope(CatalogsNarrow)
    \/ FetchStock(TablesWide)
    \/ Build
    \/ \E out \in PhotoOutcomes, ok \in BOOLEAN : Deliver(out, ok)
    \/ Summary

Spec == Init /\ [][Next]_vars

\* the discovery steps over every feed and every pair of catalogs
InitScope == InitOf(FeedsWide)

NextScope ==
    \/ Discover
    \/ ResolveScope(CatalogsWide)

SpecScope == InitScope /\ [][NextScope]_vars

\* two executions of the script against the same latest page
InitRerun == InitOf(FeedsNarrow)

NextRerun ==
    \/ Discover
    \/ ResolveScope(CatalogsNarrow)
    \/ FetchStock(TablesNarrow)
    \/ Build
    \/ \E out \in PhotoOutcomes, ok \in BOOLEAN : Deliver(out, ok)
    \/ Summary
    \/ Rerun

SpecRerun == InitRerun /\ [][NextRerun]_vars

---------------------------------------------------------------------------
(* Vocabulary of the properties *)

PhotoFailures == PhotoOutcomes \ {"sent"}

\* positions in calls of this run's sends to the main channel for row i
MainCalls(i) ==
    {k \in 1..Len(calls) :
        calls[k].run = run /\ calls[k].chat = "CHAT_ID" /\ calls[k].rec = i}
TextCalls(i) == {k \in MainCalls(i) : calls[k].kind = "text"}
PhotoCalls(i) == {k \in MainCalls(i) : calls[k].kind = "photo"}
Delivered(i) == {k \in MainCalls(i) : calls[k].ok}

\* positions of this run's messages to the log channel
LogCalls == {k \in 1..Len(calls) : calls[k].run = run /\ calls[k].chat = "CHAT_ID_LOG"}

\* the delivery loop has just run its body for row Current
InLoop ==
    \/ pc \in {"deliver", "summary"} /\ index >= 1
    \/ pc = "crashed" /\ raised \in {"photo:79-92", "send_message:100"}
Current == IF pc = "crashed" THEN index + 1 ELSE index

KeyLeq(c1, c2) ==
    \/ c1.Date < c2.Date
    \/ c1.Date = c2.Date /\ ~StrLess(c2.name, c1.name)

\* C1: when the photo branch of a row with a document link fails in any
\* way, nothing propagates: the branch ran once, the row's text is sent
\* exactly once right after it, and if that send succeeds the row is Sent
\* and the loop goes on to the next row (or to the summary).
C1_PhotoFailureFallsBackToText ==
    (InLoop /\ branch \in PhotoFailures) =>
        /\ new_report_df[Current].Pdf # ""
        /\ fetches[Current] = 1
        /\ Cardinality(PhotoCalls(Current)) <= 1
        /\ \A k \in PhotoCalls(Current) : ~calls[k].ok
        /\ TextCalls(Current) = {Len(calls)}
        /\ calls[Len(calls)].ok =>
             /\ new_report_df[Current].Status = "Sent"
             /\ pc \in {"deliver", "summary"}
             /\ index = Current
             /\ raised = ""

C1_Witness ==
    /\ pc = "deliver"
    /\ index = 1
    /\ branch = "text/html"
    /\ new_report_df[1].Status = "Sent"
    /\ Cardinality(MainCalls(1)) = 1
    /\ calls[Len(calls)].kind = "text"

C2_StatusMatchesSends ==
    \A i \in 1..Len(new_report_df) :
        /\ Cardinality(Delivered(i)) <= 1
        /\ new_report_df[i].Status = "Sent" <=> Cardinality(Delivered(i)) = 1
        /\ new_report_df[i].Status \in {"", "Sent"}

C2_WriteOnce ==
    \A i \in 1..Len(new_report_df) :
        new_report_df[i].Status = "Sent" =>
            /\ Len(new_report_df') = Len(new_report_df)
            /\ new_report_df'[i].Status = "Sent"

\* C2: every row has at most one successful send (never a photo and a
\* text), its Status is Sent exactly when one send for it succeeded, and a
\* Status that is Sent stays Sent for the rest of the run.
C2_AtMostOneSendPerRecord == [][C2_StatusMatchesSends' /\ C2_WriteOnce]_vars

C2_Witness ==
    /\ Len(new_report_df) >= 2
    /\ pc = "summary"
    /\ \E k \in Delivered(1) : calls[k].kind = "photo"
    /\ \E k \in Delivered(2) : calls[k].kind = "text"
    /\ PhotoCalls(2) # {}

\* C3: the successful sends to the main channel come in ascending
\* (Date, Stock Name) order, whichever of photo and text delivered each
\* row, and with the merge done between the sort and the loop.
C3_DeliveryOrder ==
    \A k1, k2 \in 1..Len(calls) :
        (/\ k1 < k2
         /\ calls[k1].run = run /\ calls[k2].run = run
         /\ calls[k1].chat = "CHAT_ID" /\ calls[k2].chat = "CHAT_ID"
         /\ calls[k1].ok /\ calls[k2].ok)
        => KeyLeq(calls[k1], calls[k2])

C3_Witness ==
    \E k1, k2 \in 1..Len(calls) :
        /\ k1 < k2
        /\ calls[k1].ok /\ calls[k2].ok
        /\ calls[k1].chat = "CHAT_ID" /\ calls[k2].chat = "CHAT_ID"
        /\ calls[k1].Date < calls[k2].Date
        /\ StrLess(calls[k2].name, calls[k1].name)
        /\ calls[k1].kind = "text" /\ PhotoCalls(calls[k1].rec) # {}
        /\ calls[k2].kind = "photo"

---------------------------------------------------------------------------
(* The page as the provider serves it, read without the program's operators *)

FreshRows == {i \in 1..Len(feed) : to_datetime(feed[i].date) >= DATE}
FreshNames == {feed[i].name : i \in FreshRows}
UniverseNames == {stocks_df[i].name : i \in 1..Len(stocks_df)}
LastOnPage == feed[Len(feed)].name

\* C4: with exactly 50 rows left after the date filter and S the name on
\* the page's last row, the scan set is the seed names plus every Universe
\* name that sorts after S, and nothing else; with any other count it is
\* the seed names alone.
C4_ScanSet ==
    pc = "fetch" =>
        Range(stocks) =
            IF Cardinality(FreshRows) = FeedPageSize
            THEN FreshNames \cup {u \in UniverseNames : StrLess(LastOnPage, u)}
            ELSE FreshNames

C4_Witness ==
    /\ pc = "fetch"
    /\ Cardinality(FreshRows) = FeedPageSize
    /\ \E u \in UniverseNames \ FreshNames : StrLess(LastOnPage, u) /\ u \in Range(stocks)
    /\ \E u \in UniverseNames \ FreshNames : StrLess(u, LastOnPage) /\ u \notin Range(stocks)

ScrapeRaised == raised \in {"to_datetime:141", "setitem:160", "loc:44", "to_datetime:197"}

\* C5: a run with a non-empty seed set in which no scrape fails and no
\* send fails ends, for any number of filtered records (zero included),
\* with exactly one summary on the log channel, sent after the last
\* main-channel delivery and worded after the records' Status.
C5_ExactlyOneSummary ==
    (/\ pc \in {"done", "crashed"}
     /\ latest_df # <<>>
     /\ ~ScrapeRaised
     /\ \A k \in 1..Len(calls) : calls[k].ok)
    => /\ LogCalls = {Len(calls)}
       /\ calls[Len(calls)].text = SummaryText(new_report_df)

\* C6: the Universe holds each stock name once, whatever the two catalogs
\* list, so the merge keeps one record per filtered report.
C6_UniverseNamesUnique ==
    /\ \A i, j \in 1..Len(stocks_df) :
         stocks_df[i].name = stocks_df[j].name => i = j
    /\ pc \in {"deliver", "summary", "done"} =>
         Len(new_report_df) = Len(Filtered(appended_df))

FirstRunSent == {k \in 1..Len(calls) : calls[k].run = 1 /\ calls[k].chat = "CHAT_ID" /\ calls[k].ok}
Renotified ==
    \E k1 \in FirstRunSent, k2 \in 1..Len(calls) :
        /\ calls[k2].run = 2 /\ calls[k2].chat = "CHAT_ID" /\ calls[k2].ok
        /\ calls[k2].name = calls[k1].name /\ calls[k2].Date = calls[k1].Date

\* C7 as the spec states it: a second run over the same page and cutoff
\* has an empty seed set and notifies nothing the first run notified.
C7_RerunSeedEmpty ==
    (run = 2 /\ pc # "start") => (latest_df = <<>> /\ ~Renotified)

\* C7, amended: a second run over the same page and cutoff computes the
\* seed set the first run computed, which is empty only when no row of the
\* page is dated at or after the cutoff.
C7_RerunSeedUnchanged ==
    (run = 2 /\ pc # "start" /\ raised # "to_datetime:141") =>
        /\ SeedNames(latest_df) = firstSeed
        /\ SeedNames(latest_df) = FreshNames
        /\ latest_df = <<>> <=> FreshRows = {}

C7_Witness ==
    /\ run = 2
    /\ pc = "done"
    /\ latest_df # <<>>
    /\ Renotified

\* the delivery loop's text send failed for row Current
TextSendRaised == pc = "crashed" /\ raised = "send_message:100"

\* C8: a text send that raises ends the run there: it is the last call
\* made (no later row is attempted, no summary is sent), its row and all
\* later rows stay unsent, and the rows before it stay Sent.
C8_TextFailureAborts ==
    \A k \in 1..Len(calls) :
        (calls[k].run = run /\ calls[k].chat = "CHAT_ID" /\ calls[k].kind = "text"
            /\ ~calls[k].ok)
        => /\ k = Len(calls)
           /\ TextSendRaised
           /\ LogCalls = {}
           /\ \A i \in 1..Len(new_report_df) :
                /\ i >= calls[k].rec => new_report_df[i].Status = "" /\ Delivered(i) = {}
                /\ i > calls[k].rec => MainCalls(i) = {} /\ fetches[i] = 0
                /\ i < calls[k].rec =>
                     new_report_df[i].Status = "Sent" /\ Cardinality(Delivered(i)) = 1

C8_Witness ==
    /\ TextSendRaised
    /\ Len(new_report_df) >= 3
    /\ index = 1
    /\ new_report_df[1].Status = "Sent"
    /\ ~calls[Len(calls)].ok
    /\ calls[Len(calls)].rec = 2

WellFormed(t) ==
    SelectSeq(t.rows, LAMBDA r : to_datetime(r.Date) # BadDate)

\* C9: a data row whose date does not parse is dropped alone: the fetch of
\* that stock returns every well-formed row of its table and the run goes
\* on with the other stocks.
C9_MalformedRowDropped ==
    /\ raised # "to_datetime:197"
    /\ Len(appended_df) = Len(served)
    /\ \A i \in 1..Len(served) :
         served[i].table =>
            /\ ~appended_df[i].none
            /\ Len(appended_df[i].rows) = Len(WellFormed(served[i]))
            /\ \A n \in 1..Len(appended_df[i].rows) :
                 /\ appended_df[i].rows[n].Date = to_datetime(WellFormed(served[i])[n].Date)
                 /\ appended_df[i].rows[n].Link = WellFormed(served[i])[n].Link

\* C10: control reaches the summary only with every row Sent, so the
\* message 'Not all reports are submitted.' is never sent.
C10_FailureSummaryUnreachable ==
    /\ pc \in {"summary", "done"} =>
         \A i \in 1..Len(new_report_df) : new_report_df[i].Status = "Sent"
    /\ \A k \in 1..Len(calls) : calls[k].text # "Not all reports are submitted."

C10_Witness ==
    /\ pc = "done"
    /\ Len(new_report_df) >= 2
    /\ calls[Len(calls)].text = "Task is completed."
    /\ \E i \in 1..Len(new_report_df) :
         \E k \in PhotoCalls(i) : ~calls[k].ok

====
